---------------------------- MODULE Spec2Model ----------------------------
(***************************************************************************)
(* A model of the serverless-rust plugin (src/index.js): the build pass    *)
(* RustPlugin.build with its helpers cargoBinary, buildLocally,            *)
(* localBuild, dockerBuild and functions, and the constructor's merge of   *)
(* the global configuration.                                               *)
(*                                                                         *)
(* JavaScript values are encoded as strings: Undefined stands for the      *)
(* value undefined (a key that is absent), JsTrue and JsFalse for the      *)
(* booleans.  A handler is a sequence of one-character strings so that     *)
(* String.prototype.split can be computed.  An exit status is an integer   *)
(* in 0..255; Null and NoStatus, outside that range, stand for a status of *)
(* null and for a result object without a status key.                      *)
(***************************************************************************)
EXTENDS Integers, Sequences, FiniteSets, TLC

\* ------------------------------------------------------------------ bounds
MaxFuncs == 2
MaxPasses == 2
MaxHandlerLen == 4

\* --------------------------------------------------------------- constants
RUST_RUNTIME == "rust"
BASE_RUNTIME == "provided"
DEFAULT_DOCKER_TAG == "0.2.7-rust-1.43.0"
DEFAULT_DOCKER_IMAGE == "softprops/lambda-rust"
SupportedProvider == "aws"

Undefined == "undefined"
JsTrue == "true"
JsFalse == "false"
Null == 256
NoStatus == 257

\* ------------------------------------------------------- JavaScript idioms
\* ToBoolean on the encoded values: undefined, false and "" are falsy.
Truthy(v) == v \notin {Undefined, JsFalse, ""}

\* a || b
JsOr(a, b) == IF Truthy(a) THEN a ELSE b

\* status > 0: null and undefined convert to 0 and NaN, neither is > 0.
StatusGtZero(s) == s \notin {Null, NoStatus} /\ s > 0

\* ----------------------------------------------------------- HandlerParser
HasSep(s) == \E k \in 1..Len(s) : s[k] = "."

FirstSep(s) == CHOOSE k \in 1..Len(s) : s[k] = "." /\ \A j \in 1..(k-1) : s[j] # "."

\* String.prototype.split("."): every separator splits, "" gives [""].
RECURSIVE Split(_)
Split(s) ==
  IF ~HasSep(s) THEN << s >>
  ELSE << SubSeq(s, 1, FirstSep(s) - 1) >> \o Split(SubSeq(s, FirstSep(s) + 1, Len(s)))

\* let [cargoPackage, binary] = func.handler.split("."); binary defaults to
\* cargoPackage when the second element is undefined.
cargoBinary(handler) ==
  LET parts == Split(handler)
  IN  [cargoPackage |-> parts[1],
       binary       |-> IF Len(parts) >= 2 THEN parts[2] ELSE parts[1]]

\* ---------------------------------------------------------- ConfigResolver
ConfigKeys == {"cargoFlags", "dockerTag", "dockerImage", "dockerless", "profile"}

\* {} : every key absent.  (func.rust || {}) and (funcArgs || {}) make an
\* absent override block read like this one.
EmptyObject == [k \in ConfigKeys |-> Undefined]

\* the literal first argument of Object.assign in the constructor
BuiltinDefaults ==
  [cargoFlags  |-> "",
   dockerTag   |-> DEFAULT_DOCKER_TAG,
   dockerImage |-> DEFAULT_DOCKER_IMAGE,
   dockerless  |-> JsFalse,
   profile     |-> Undefined]

\* this.custom = Object.assign({defaults}, service.custom.rust || {}):
\* every key present in the global block replaces the default.
MergeCustom(globalRust) ==
  [k \in ConfigKeys |-> IF globalRust[k] # Undefined THEN globalRust[k]
                        ELSE BuiltinDefaults[k]]

\* (func.rust || {}).dockerless || this.custom.dockerless
buildLocally(rust, cust) == JsOr(rust.dockerless, cust.dockerless)

\* (func.rust || {}).profile || this.custom.profile
EffectiveProfile(rust, cust) == JsOr(rust.profile, cust.profile)

\* localBuild: (funcArgs || {}).cargoFlags || this.custom.cargoFlags || ""
LocalCargoFlags(rust, cust) == JsOr(JsOr(rust.cargoFlags, cust.cargoFlags), "")

\* dockerBuild: (funcArgs || {}).cargoFlags || this.custom.cargoFlags
DockerCargoFlags(rust, cust) == JsOr(rust.cargoFlags, cust.cargoFlags)

EffectiveDockerTag(rust, cust) == JsOr(rust.dockerTag, cust.dockerTag)

EffectiveDockerImage(rust, cust) == JsOr(rust.dockerImage, cust.dockerImage)

\* ---------------------------------------------------------- ArtifactLocation
\* "dev" === profile ? "debug" : "release"
ProfileDir(profile) == IF profile = "dev" THEN "debug" ELSE "release"

\* path.join(this.dockerPath, `target/lambda/${dir}`, `${binary}.zip`)
ArtifactPath(binary, profile) ==
  << "{dockerPath}", "/target/lambda/", ProfileDir(profile), "/" >> \o binary \o << ".zip" >>

NoArtifact == << >>

\* ----------------------------------------------------------------- executors
\* What spawnSync can return: exit 0, a nonzero exit, a spawn error (status
\* null), and a child ended by a signal (status null, no error object).
SpawnResults ==
  { [error |-> FALSE, status |-> 0],
    [error |-> FALSE, status |-> 101],
    [error |-> TRUE,  status |-> Null],
    [error |-> FALSE, status |-> Null] }

\* What the packaging step of localBuild can meet.
PackOutcomes == {"written", "readThrows", "writeFails"}

\* localBuild: buildResult.error || buildResult.status > 0
BuildResultFailed(res) == res.error \/ StatusGtZero(res.status)

\* mutant of ExecutorFailed: only a process error counts
ExecutorFailedErrorOnly(res) == res.error

\* build: res.error || res.status > 0
ExecutorFailed(res) == res.error \/ StatusGtZero(res.status)

\* localBuild: the value returned, or threw = TRUE when readFileSync (or the
\* zip library) throws out of it.
localBuild(proc, pack) ==
  IF BuildResultFailed(proc) THEN [threw |-> FALSE, res |-> proc]
  ELSE IF pack = "readThrows" THEN [threw |-> TRUE, res |-> proc]
  ELSE IF pack = "writeFails" THEN [threw |-> FALSE, res |-> [error |-> FALSE, status |-> 1]]
  ELSE [threw |-> FALSE, res |-> [error |-> FALSE, status |-> NoStatus]]

\* dockerBuild: return spawnSync(...)
dockerBuild(proc) == [threw |-> FALSE, res |-> proc]

\* ------------------------------------------------------------------- state
VARIABLES
  providerName,        \* service.provider.name
  providerRuntime,     \* service.provider.runtime
  funcs,               \* the service's functions, in getAllFunctions() order
  custom,              \* this.custom
  optFunction,         \* this.options.function: 0 when absent, else the function
  globalCargoPackage,  \* what the free identifier cargoPackage of build() resolves to
  pc,                  \* where build() is: idle, loop, done (returned), raised (threw)
  idx,                 \* position of forEach in this.functions()
  rustFunctionsFound,  \* the local of build()
  err,                 \* what build() threw
  calls,               \* the executor invocations of the current pass
  passNo,              \* how many times a hook has run build()
  pre,                 \* funcs and providerRuntime as the current pass found them
  prevCompleted,       \* the previous call of build() returned without throwing
  hIn, hOut,           \* HandlerParser alone: a handler and what cargoBinary returned
  cFunc, cGlobal, cOut \* ConfigResolver alone: both blocks and the effective values

vars == << providerName, providerRuntime, funcs, custom, optFunction,
           globalCargoPackage, pc, idx, rustFunctionsFound, err, calls, passNo,
           pre, prevCompleted, hIn, hOut, cFunc, cGlobal, cOut >>

buildVars == << providerName, providerRuntime, funcs, custom, optFunction,
                globalCargoPackage, pc, idx, rustFunctionsFound, err, calls,
                passNo, pre, prevCompleted >>

\* --------------------------------------------------------- the input space
ProviderNames == {SupportedProvider, "google"}

ProviderRuntimes == {RUST_RUNTIME, Undefined}

FuncRuntimes == {RUST_RUNTIME, "nodejs12.x", Undefined}

Handlers == { << "a", ".", "x" >>, << "b", ".", "x" >>, << "b" >> }

\* func.rust: absent, or a block of overrides
FuncOverrides ==
  { EmptyObject,
    [EmptyObject EXCEPT !.dockerless = JsTrue, !.profile = "dev"] }

\* service.custom.rust: absent, or a block that makes local builds the default
GlobalBlocks ==
  { EmptyObject,
    [EmptyObject EXCEPT !.dockerless = JsTrue] }

FuncConfigs ==
  [handler : Handlers, runtime : FuncRuntimes, rust : FuncOverrides,
   artifact : {NoArtifact}]

\* Whether the host's global object has a property cargoPackage.  build()
\* destructures { cargoBinary, binary } and then reads cargoPackage, which no
\* scope of the module declares: the read is resolved against the global
\* object and throws a ReferenceError when the property is missing.
Unresolvable == "<unresolvable>"

GlobalBindings == {Unresolvable, "some-package"}

NoParse == [cargoPackage |-> << "?" >>, binary |-> << "?" >>]

\* -------------------------------------------------------------------- Init
InitBuild ==
  /\ providerName \in ProviderNames
  /\ providerRuntime \in ProviderRuntimes
  /\ funcs \in UNION { [1..n -> FuncConfigs] : n \in 1..MaxFuncs }
  /\ custom \in { MergeCustom(g) : g \in GlobalBlocks }
  /\ optFunction \in 0..1
  /\ globalCargoPackage \in GlobalBindings
  /\ pc = "idle"
  /\ idx = 0
  /\ rustFunctionsFound = FALSE
  /\ err = "none"
  /\ calls = << >>
  /\ passNo = 0
  /\ pre = [funcs |-> funcs, providerRuntime |-> providerRuntime]
  /\ prevCompleted = FALSE

IdleParser == hIn = << >> /\ hOut = NoParse

IdleResolver == cFunc = EmptyObject /\ cGlobal = EmptyObject /\ cOut = EmptyObject

Init == InitBuild /\ IdleParser /\ IdleResolver

\* ------------------------------------------------------------------- build
\* functions(): the one named function, or all of them
functions ==
  IF optFunction # 0 THEN << optFunction >> ELSE [k \in 1..Len(funcs) |-> k]

\* mutant of EffectiveRuntime: the service default shadows the function's own
EffectiveRuntimeDefaultFirst(f, provRuntime) == JsOr(provRuntime, f.runtime)

\* func.runtime || service.provider.runtime
EffectiveRuntime(f, provRuntime) == JsOr(f.runtime, provRuntime)

\* mutant of ProviderSupported: every provider is built for
ProviderSupportedAny(name) == TRUE

\* the complement of: service.provider.name != "aws"
ProviderSupported(name) == name = SupportedProvider

\* mutant of RewriteRuntime: the marker is left in place
RewriteRuntimeKeep(rt) == rt

\* if (x.runtime == RUST_RUNTIME) x.runtime = BASE_RUNTIME, for a function and
\* for service.provider
RewriteRuntime(rt) == IF rt = RUST_RUNTIME THEN BASE_RUNTIME ELSE rt

CurFn == functions[idx]

InLoop == pc = "loop" /\ idx <= Len(functions)

CurMatches == EffectiveRuntime(funcs[CurFn], providerRuntime) = RUST_RUNTIME

\* one executor invocation, as build() sees it
Call(kind, proc, out) ==
  [fn |-> CurFn, kind |-> kind,
   binary |-> cargoBinary(funcs[CurFn].handler).binary,
   profile |-> EffectiveProfile(funcs[CurFn].rust, custom),
   proc |-> proc, threw |-> out.threw, res |-> out.res]

\* mutant of MarkBuilt: the artifact is assigned, the runtime is left alone
MarkBuiltArtifactOnly(f) ==
  [f EXCEPT !.artifact = ArtifactPath(cargoBinary(f.handler).binary,
                                      EffectiveProfile(f.rust, custom))]

\* func.package.artifact = artifactPath; the runtime rewrite of the function
MarkBuilt(f) ==
  [f EXCEPT !.artifact = ArtifactPath(cargoBinary(f.handler).binary,
                                      EffectiveProfile(f.rust, custom)),
            !.runtime = RewriteRuntime(f.runtime)]

\* what follows the executor's return inside the forEach callback
AfterExecutor(kind, proc, out) ==
  /\ rustFunctionsFound' = TRUE
  /\ calls' = Append(calls, Call(kind, proc, out))
  /\ IF out.threw
       THEN /\ pc' = "raised" /\ err' = "ExecutorThrew"
            /\ UNCHANGED << funcs, idx >>
       ELSE IF ExecutorFailed(out.res)
         THEN /\ pc' = "raised" /\ err' = "BuildError"
              /\ UNCHANGED << funcs, idx >>
         ELSE /\ funcs' = [funcs EXCEPT ![CurFn] = MarkBuilt(funcs[CurFn])]
              /\ idx' = idx + 1
              /\ UNCHANGED << pc, err >>
  /\ UNCHANGED << providerName, providerRuntime, custom, optFunction,
                  globalCargoPackage, passNo, pre, prevCompleted >>

\* A lifecycle hook calls build(): the provider test, then the loop starts.
BuildEnter ==
  /\ pc \in {"idle", "done", "raised"}
  /\ passNo < MaxPasses
  /\ passNo' = passNo + 1
  /\ pre' = [funcs |-> funcs, providerRuntime |-> providerRuntime]
  /\ prevCompleted' = (pc = "done")
  /\ calls' = << >>
  /\ err' = "none"
  /\ rustFunctionsFound' = FALSE
  /\ IF ProviderSupported(providerName)
       THEN pc' = "loop" /\ idx' = 1
       ELSE pc' = "done" /\ idx' = 0
  /\ UNCHANGED << providerName, providerRuntime, funcs, custom, optFunction,
                  globalCargoPackage >>

\* forEach callback: the function's effective runtime is not the marker
BuildSkip ==
  /\ InLoop
  /\ ~CurMatches
  /\ idx' = idx + 1
  /\ UNCHANGED << providerName, providerRuntime, funcs, custom, optFunction,
                  globalCargoPackage, pc, rustFunctionsFound, err, calls,
                  passNo, pre, prevCompleted >>

\* forEach callback on a matching function: evaluating the executor's
\* arguments reads cargoPackage, which is not bound
BuildReferenceError ==
  /\ InLoop
  /\ CurMatches
  /\ globalCargoPackage = Unresolvable
  /\ rustFunctionsFound' = TRUE
  /\ pc' = "raised"
  /\ err' = "ReferenceError"
  /\ UNCHANGED << providerName, providerRuntime, funcs, custom, optFunction,
                  globalCargoPackage, idx, calls, passNo, pre, prevCompleted >>

\* forEach callback on a matching function built with the local toolchain
BuildLocal ==
  /\ InLoop
  /\ CurMatches
  /\ globalCargoPackage # Unresolvable
  /\ Truthy(buildLocally(funcs[CurFn].rust, custom))
  /\ \E proc \in SpawnResults :
       \E pack \in IF BuildResultFailed(proc) THEN {"written"} ELSE PackOutcomes :
         AfterExecutor("local", proc, localBuild(proc, pack))

\* forEach callback on a matching function built in the container
BuildDocker ==
  /\ InLoop
  /\ CurMatches
  /\ globalCargoPackage # Unresolvable
  /\ ~Truthy(buildLocally(funcs[CurFn].rust, custom))
  /\ \E proc \in SpawnResults : AfterExecutor("docker", proc, dockerBuild(proc))

\* after the loop: the service default is rewritten, then the found test
BuildLeave ==
  /\ pc = "loop"
  /\ idx > Len(functions)
  /\ providerRuntime' = RewriteRuntime(providerRuntime)
  /\ IF rustFunctionsFound
       THEN pc' = "done" /\ err' = "none"
       ELSE pc' = "raised" /\ err' = "NoRustFunctions"
  /\ UNCHANGED << providerName, funcs, custom, optFunction, globalCargoPackage,
                  idx, rustFunctionsFound, calls, passNo, pre, prevCompleted >>

Next ==
  \/ BuildEnter /\ UNCHANGED << hIn, hOut, cFunc, cGlobal, cOut >>
  \/ BuildSkip /\ UNCHANGED << hIn, hOut, cFunc, cGlobal, cOut >>
  \/ BuildReferenceError /\ UNCHANGED << hIn, hOut, cFunc, cGlobal, cOut >>
  \/ BuildLocal /\ UNCHANGED << hIn, hOut, cFunc, cGlobal, cOut >>
  \/ BuildDocker /\ UNCHANGED << hIn, hOut, cFunc, cGlobal, cOut >>
  \/ BuildLeave /\ UNCHANGED << hIn, hOut, cFunc, cGlobal, cOut >>

Spec == Init /\ [][Next]_vars

\* ------------------------------------------------- HandlerParser on its own
Alphabet == {"a", "b", "."}

HandlerStrings == UNION { [1..n -> Alphabet] : n \in 0..MaxHandlerLen }

\* a service at rest, for the specifications of the pure components
RestingFunc ==
  [handler |-> << "a" >>, runtime |-> RUST_RUNTIME, rust |-> EmptyObject,
   artifact |-> NoArtifact]

RestingBuild ==
  /\ providerName = SupportedProvider
  /\ providerRuntime = Undefined
  /\ funcs = << RestingFunc >>
  /\ custom = MergeCustom(EmptyObject)
  /\ optFunction = 0
  /\ globalCargoPackage = Unresolvable
  /\ pc = "idle"
  /\ idx = 0
  /\ rustFunctionsFound = FALSE
  /\ err = "none"
  /\ calls = << >>
  /\ passNo = 0
  /\ pre = [funcs |-> funcs, providerRuntime |-> providerRuntime]
  /\ prevCompleted = FALSE

InitHandler == RestingBuild /\ IdleResolver /\ hIn \in HandlerStrings /\ hOut = NoParse

\* this.cargoBinary(func) on a function whose handler is hIn
ParseHandler ==
  /\ hOut = NoParse
  /\ hOut' = cargoBinary(hIn)
  /\ UNCHANGED << hIn, cFunc, cGlobal, cOut >>
  /\ UNCHANGED buildVars

NextHandler == ParseHandler

SpecHandler == InitHandler /\ [][NextHandler]_vars

\* ------------------------------------------------ ConfigResolver on its own
OverrideBlocks ==
  [cargoFlags  : {Undefined, "", "--features f"},
   dockerTag   : {Undefined, "tag-f"},
   dockerImage : {Undefined, "image-f"},
   dockerless  : {Undefined, JsTrue, JsFalse},
   profile     : {Undefined, "dev", "release"}]

GlobalBlocksAll ==
  [cargoFlags  : {Undefined, "", "--features g"},
   dockerTag   : {Undefined, "tag-g"},
   dockerImage : {Undefined, "image-g"},
   dockerless  : {Undefined, JsTrue, JsFalse},
   profile     : {Undefined, "dev", "release"}]

Unresolved == [k \in ConfigKeys |-> "<unresolved>"]

InitConfig ==
  /\ RestingBuild /\ IdleParser
  /\ cFunc \in OverrideBlocks
  /\ cGlobal \in GlobalBlocksAll
  /\ cOut = Unresolved

\* The effective values build() and the executors use for a function whose
\* override block is cFunc under the global block cGlobal.  cargoFlags is the
\* container executor's value; the local executor's differs only in turning
\* an undefined result into "".
ResolveConfig ==
  /\ cOut = Unresolved
  /\ LET cust == MergeCustom(cGlobal)
     IN  cOut' = [cargoFlags  |-> DockerCargoFlags(cFunc, cust),
                  dockerTag   |-> EffectiveDockerTag(cFunc, cust),
                  dockerImage |-> EffectiveDockerImage(cFunc, cust),
                  dockerless  |-> buildLocally(cFunc, cust),
                  profile     |-> EffectiveProfile(cFunc, cust)]
  /\ UNCHANGED << hIn, hOut, cFunc, cGlobal >>
  /\ UNCHANGED buildVars

NextConfig == ResolveConfig

SpecConfig == InitConfig /\ [][NextConfig]_vars

\* ================================================================== claims
\* a function's effective runtime as the current pass found it
PreRuntime(f) ==
  IF pre.funcs[f].runtime # Undefined THEN pre.funcs[f].runtime
  ELSE pre.providerRuntime

\* the executor's returned result is a failure: an error, or a status > 0
ReportsFailure(c) == ~c.threw /\ (c.res.error \/ c.res.status \in 1..255)

\* the external process of the invocation exited with status 0
ExitedZero(c) == ~c.proc.error /\ c.proc.status = 0

\* the function was built by an invocation of the current pass whose
\* process exited with status 0
BuiltInPass(f) ==
  \E k \in 1..Len(calls) :
    /\ calls[k].fn = f /\ ExitedZero(calls[k])
    /\ ~calls[k].threw /\ ~ReportsFailure(calls[k])

\* the artifact path build() computes for function f of the pass's input
ExpectedArtifact(f) ==
  ArtifactPath(cargoBinary(pre.funcs[f].handler).binary,
               EffectiveProfile(pre.funcs[f].rust, custom))

\* C1 (fail-fast): an executor invocation that reports failure (a process
\* error or an exit status > 0) is the last invocation of its pass, and
\* build() has raised: no executor runs for any later function.
C1_FailFast ==
  \A k \in 1..Len(calls) :
    ReportsFailure(calls[k]) => (k = Len(calls) /\ pc = "raised")

\* a pass raised on exit status 101 while a later matching function was queued
C1_Witness ==
  /\ pc = "raised" /\ err = "BuildError"
  /\ Len(calls) >= 1
  /\ calls[Len(calls)].res.status = 101
  /\ idx < Len(functions)
  /\ PreRuntime(functions[idx + 1]) = RUST_RUNTIME

\* C2 (end-to-end success): a finished pass over a single function on the
\* supported provider, whose effective runtime is the marker and whose
\* strategy is local, and in which no toolchain run ended otherwise than with
\* status 0 and a written archive, has returned without raising, with the
\* artifact set to the computed path and the runtime rewritten to provided.
C2_EndToEndSuccess ==
  ( /\ pc \in {"done", "raised"}
    /\ passNo >= 1
    /\ providerName = SupportedProvider
    /\ Len(funcs) = 1
    /\ PreRuntime(1) = RUST_RUNTIME
    /\ Truthy(JsOr(pre.funcs[1].rust.dockerless, custom.dockerless))
    /\ \A k \in 1..Len(calls) : ExitedZero(calls[k]) /\ ~calls[k].threw
                                 /\ ~ReportsFailure(calls[k]) )
  => ( /\ pc = "done"
       /\ funcs[1].artifact = ExpectedArtifact(1)
       /\ BASE_RUNTIME = (IF funcs[1].runtime # Undefined THEN funcs[1].runtime
                          ELSE providerRuntime) )

\* C3 (NoMatchingFunctions): on the supported provider, when no target
\* function's effective runtime is the marker, the pass invokes no executor,
\* never returns normally, and what it raises is the no-functions error.
C3_NoMatchingFunctions ==
  ( /\ passNo >= 1
    /\ providerName = SupportedProvider
    /\ \A j \in 1..Len(functions) : PreRuntime(functions[j]) # RUST_RUNTIME )
  => ( /\ calls = << >>
       /\ pc # "done"
       /\ (pc = "raised" => err = "NoRustFunctions") )

\* a pass over two functions, neither matching, raised the no-functions error
C3_Witness ==
  /\ pc = "raised" /\ err = "NoRustFunctions"
  /\ providerName = SupportedProvider
  /\ Len(functions) >= 2
  /\ \A j \in 1..Len(functions) : PreRuntime(functions[j]) # RUST_RUNTIME

\* C6 (disjoint artifacts): two different functions built in the same pass
\* are assigned different artifact paths.
C6_DisjointArtifacts ==
  \A f, g \in 1..Len(funcs) :
    (f # g /\ BuiltInPass(f) /\ BuiltInPass(g))
      => funcs[f].artifact # funcs[g].artifact

\* C7 (UnsupportedProvider): on another provider build() never raises,
\* invokes no executor, and leaves every function and the service default
\* runtime as they were.
C7_UnsupportedProvider ==
  providerName # SupportedProvider
  => ( /\ pc # "raised"
       /\ calls = << >>
       /\ funcs = pre.funcs
       /\ providerRuntime = pre.providerRuntime )

\* build() returned on another provider although no function matches
C7_Witness ==
  /\ providerName # SupportedProvider
  /\ pc = "done" /\ passNo >= 1
  /\ \A j \in 1..Len(functions) : PreRuntime(functions[j]) # RUST_RUNTIME

\* C8 (marked only on exit 0): a function changed by the pass has an
\* invocation whose process exited with status 0, and every invocation whose
\* process ended otherwise made build() raise and left its function as found.
C8_MarkedOnlyOnExitZero ==
  /\ \A f \in 1..Len(funcs) :
       funcs[f] # pre.funcs[f]
         => \E k \in 1..Len(calls) : calls[k].fn = f /\ ExitedZero(calls[k])
  /\ \A k \in 1..Len(calls) :
       ~ExitedZero(calls[k])
         => (pc = "raised" /\ funcs[calls[k].fn] = pre.funcs[calls[k].fn])

\* the pass was aborted by the executor of the function at position idx
AbortedByExecutor == pc = "raised" /\ err \in {"BuildError", "ExecutorThrew"}

\* the failing function, the functions after it, the functions the pass does
\* not target and the service default are as the pass found them
C9_Frame ==
  /\ \A j \in idx..Len(functions) : funcs[functions[j]] = pre.funcs[functions[j]]
  /\ \A f \in 1..Len(funcs) :
       (\A j \in 1..Len(functions) : functions[j] # f) => funcs[f] = pre.funcs[f]
  /\ providerRuntime = pre.providerRuntime

\* C9 as stated: after an abort by the executor of fk the frame holds, and
\* every matching function before fk has the computed artifact and the
\* runtime provided.
C9_NoRollbackAsStated ==
  AbortedByExecutor
  => ( /\ C9_Frame
       /\ \A j \in 1..(idx - 1) :
            LET f == functions[j]
            IN  IF PreRuntime(f) = RUST_RUNTIME
                  THEN /\ funcs[f].artifact = ExpectedArtifact(f)
                       /\ funcs[f].runtime = BASE_RUNTIME
                  ELSE funcs[f] = pre.funcs[f] )

\* C9 amended: as above, but the runtime of a matching function before fk is
\* provided only when the function declared the marker itself; a function
\* that matched through the service default keeps its own runtime unset.
C9_NoRollback ==
  AbortedByExecutor
  => ( /\ C9_Frame
       /\ \A j \in 1..(idx - 1) :
            LET f == functions[j]
            IN  IF PreRuntime(f) = RUST_RUNTIME
                  THEN /\ funcs[f].artifact = ExpectedArtifact(f)
                       /\ funcs[f].runtime =
                            (IF pre.funcs[f].runtime = RUST_RUNTIME
                               THEN BASE_RUNTIME ELSE pre.funcs[f].runtime)
                  ELSE funcs[f] = pre.funcs[f] )

\* the second function's executor failed after the first, which matched
\* through the service default, had been built
C9_Witness ==
  /\ AbortedByExecutor
  /\ idx = 2
  /\ pre.funcs[functions[1]].runtime = Undefined
  /\ funcs[functions[1]].artifact = ExpectedArtifact(functions[1])
  /\ funcs[functions[1]].artifact # pre.funcs[functions[1]].artifact

\* C10 (a successful pass cannot be repeated): after build() returned from a
\* pass over all functions on the supported provider, no function and not
\* the service default declares the marker; and the pass that follows such a
\* return invokes no executor, never returns normally, and raises the
\* no-functions error.
C10_NotRepeatable ==
  (providerName = SupportedProvider /\ optFunction = 0)
  => ( /\ pc = "done"
         => ( /\ \A f \in 1..Len(funcs) : funcs[f].runtime # RUST_RUNTIME
              /\ providerRuntime # RUST_RUNTIME )
       /\ prevCompleted
         => ( /\ calls = << >>
              /\ pc # "done"
              /\ (pc = "raised" => err = "NoRustFunctions") ) )

\* the second build() of a service whose first pass built a function raised
\* the no-functions error
C10_Witness ==
  /\ providerName = SupportedProvider /\ optFunction = 0
  /\ prevCompleted
  /\ pc = "raised" /\ err = "NoRustFunctions"
  /\ \E f \in 1..Len(funcs) : funcs[f].artifact # NoArtifact

\* precedence by presence: override, else global block, else built-in default
ByPresence(k) ==
  IF cFunc[k] # Undefined THEN cFunc[k]
  ELSE IF cGlobal[k] # Undefined THEN cGlobal[k]
  ELSE BuiltinDefaults[k]

\* C4 (config precedence): for every key, the effective value is the
\* override's when the key is present there, else the global block's when
\* present there, else the built-in default.  dockerless is compared as the
\* strategy it selects and profile as the directory it selects.
C4_ConfigPrecedence ==
  cOut # Unresolved
  => ( /\ cOut.cargoFlags = ByPresence("cargoFlags")
       /\ cOut.dockerTag = ByPresence("dockerTag")
       /\ cOut.dockerImage = ByPresence("dockerImage")
       /\ Truthy(cOut.dockerless) = Truthy(ByPresence("dockerless"))
       /\ ProfileDir(cOut.profile) = ProfileDir(ByPresence("profile")) )

\* the text before the first separator, or all of it
TextBefore(h) == IF HasSep(h) THEN SubSeq(h, 1, FirstSep(h) - 1) ELSE h

\* the text after the first separator, or the unit when there is none
TextAfter(h) == IF HasSep(h) THEN SubSeq(h, FirstSep(h) + 1, Len(h)) ELSE TextBefore(h)

\* C5 (HandlerParser): a returned BuildUnit has a non-empty unit, which is
\* the text before the first separator, and its binary is the text after the
\* first separator, or the unit when there is no separator; the binary is
\* never empty.  (An empty unit is to raise MalformedHandler, so no
\* BuildUnit is returned for it.)
C5_HandlerParser ==
  hOut # NoParse
  => ( /\ TextBefore(hIn) # << >>
       /\ hOut.cargoPackage = TextBefore(hIn)
       /\ hOut.binary = TextAfter(hIn)
       /\ hOut.binary # << >> )

=============================================================================
